---- MODULE Spec2Model ----
(***************************************************************************)
(* Model of src/minesweeper/minesweeper.py: the Minesweeper board (the     *)
(* grid oracle), Sentence, and MinesweeperAI (the knowledge-based solver). *)
(*                                                                         *)
(* Cells are pairs <<row, col>>, 0-based as in the source.  A Sentence is  *)
(* a record [cells, count]; MinesweeperAI.knowledge is the Python list of  *)
(* sentences, modelled as a sequence (duplicates by value are possible and *)
(* list.remove removes the first equal element).                           *)
(*                                                                         *)
(* add_knowledge is modelled step by step: the straight-line part (lines   *)
(* 192-207), and then, for every iteration of its while loop, the mine      *)
(* extraction (lines 209-222), the safe extraction (lines 224-237) and the *)
(* subset inference (lines 239-251).  pc is the position of the running    *)
(* call, "idle" when no call is running; while a call runs nothing else    *)
(* can happen (the program is single-threaded).                            *)
(***************************************************************************)
EXTENDS Integers, Sequences, FiniteSets, TLC

\* ---- bounds of the model ----
MaxHeight == 3
MaxWidth == 4
MaxCells == 9
MaxMines == 3
MaxMoves == 4
MaxCount == 6
MaxSide == 2
MaxCalls == 3
MaxArg == 2
MaxPasses == 8

VARIABLES
    height,      \* MinesweeperAI.height / Minesweeper.height
    width,       \* MinesweeperAI.width / Minesweeper.width
    board,       \* Minesweeper.mines: the cells that hold a mine
    moves_made,  \* MinesweeperAI.moves_made
    mines,       \* MinesweeperAI.mines
    safes,       \* MinesweeperAI.safes
    knowledge,   \* MinesweeperAI.knowledge
    pc,          \* where the running add_knowledge call is, or "idle"
    loop_again,  \* add_knowledge's local loop_again
    calls,       \* number of calls made so far that may change the solver
    last_call    \* [op, value]: the most recent call and the value it returned

vars == <<height, width, board, moves_made, mines, safes, knowledge, pc,
          loop_again, calls, last_call>>

\* Python's None
None == <<>>

\* All cells of an h x w grid
Grid(h, w) == (0 .. h - 1) \X (0 .. w - 1)

\* ---------------------------------------------------------------------------
\* Minesweeper (the grid oracle)
\* ---------------------------------------------------------------------------

is_mine(cell) == cell \in board

\* Number of mines within one row and column of cell, cell itself excluded,
\* counting only cells inside the grid.
nearby_mines(cell) ==
    Cardinality({c \in (cell[1] - 1 .. cell[1] + 1) \X (cell[2] - 1 .. cell[2] + 1) :
                    /\ c # cell
                    /\ 0 <= c[1] /\ c[1] < height /\ 0 <= c[2] /\ c[2] < width
                    /\ c \in board})

\* ---------------------------------------------------------------------------
\* Sentence
\* ---------------------------------------------------------------------------

Sentence(cells, count) == [cells |-> cells, count |-> count]

\* What known_mines and known_safes return: None or a set of cells.  A set
\* and None are values of one kind here, records, so that any two results
\* can be compared (the empty set of cells is not None).
NoCells == [is_none |-> TRUE, cells |-> {}]

SomeCells(cells) == [is_none |-> FALSE, cells |-> cells]

\* known_mines testing "self.count >= len(self.cells)"
known_mines_at_least(s) ==
    IF s.count >= Cardinality(s.cells) THEN SomeCells(s.cells) ELSE NoCells

known_mines(s) ==
    IF s.count = Cardinality(s.cells) THEN SomeCells(s.cells) ELSE NoCells

known_safes(s) == IF s.count = 0 THEN SomeCells(s.cells) ELSE NoCells

\* Sentence.mark_mine without "self.count -= 1"
Sentence_mark_mine_keeps_count(s, cell) ==
    IF cell \in s.cells
    THEN [cells |-> s.cells \ {cell}, count |-> s.count]
    ELSE s

Sentence_mark_mine(s, cell) ==
    IF cell \in s.cells
    THEN [cells |-> s.cells \ {cell}, count |-> s.count - 1]
    ELSE s

\* Sentence.mark_safe with mark_mine's "self.count -= 1"
Sentence_mark_safe_lowers_count(s, cell) ==
    IF cell \in s.cells
    THEN [cells |-> s.cells \ {cell}, count |-> s.count - 1]
    ELSE s

Sentence_mark_safe(s, cell) ==
    IF cell \in s.cells
    THEN [cells |-> s.cells \ {cell}, count |-> s.count]
    ELSE s

\* ---------------------------------------------------------------------------
\* MinesweeperAI.  ai is the solver object as a record
\* [moves_made, mines, safes, knowledge]; height and width never change.
\* ---------------------------------------------------------------------------

\* The solver as the state holds it
Self == [moves_made |-> moves_made, mines |-> mines, safes |-> safes,
         knowledge |-> knowledge]

\* mark_mine without the loop over self.knowledge
mark_mine_skips_knowledge(ai, cell) == [ai EXCEPT !.mines = @ \cup {cell}]

mark_mine(ai, cell) ==
    [ai EXCEPT !.mines = @ \cup {cell},
               !.knowledge = [i \in DOMAIN @ |-> Sentence_mark_mine(@[i], cell)]]

\* mark_safe that also withdraws the cell from self.mines
mark_safe_reclassifies(ai, cell) ==
    [ai EXCEPT !.safes = @ \cup {cell},
               !.mines = @ \ {cell},
               !.knowledge = [i \in DOMAIN @ |-> Sentence_mark_safe(@[i], cell)]]

mark_safe(ai, cell) ==
    [ai EXCEPT !.safes = @ \cup {cell},
               !.knowledge = [i \in DOMAIN @ |-> Sentence_mark_safe(@[i], cell)]]

\* "for cell in cells: self.mark_mine(cell)".  Marking one cell changes
\* self.mines and each sentence independently of the other cells, so the
\* loop's result does not depend on its order: every cell of cells joins
\* self.mines, and every sentence loses its cells that are in cells and
\* one unit of count for each.
mark_mine_each(ai, cells) ==
    [ai EXCEPT !.mines = @ \cup cells,
               !.knowledge = [i \in DOMAIN @ |->
                   [cells |-> @[i].cells \ cells,
                    count |-> @[i].count - Cardinality(@[i].cells \cap cells)]]]

\* "for cell in cells: self.mark_safe(cell)", likewise
mark_safe_each(ai, cells) ==
    [ai EXCEPT !.safes = @ \cup cells,
               !.knowledge = [i \in DOMAIN @ |->
                   [cells |-> @[i].cells \ cells, count |-> @[i].count]]]

\* directions without the last one, (-1, 1)
directions_but_last == {<<0, 1>>, <<0, -1>>, <<1, 0>>, <<-1, 0>>,
                        <<1, 1>>, <<-1, -1>>, <<1, -1>>}

directions == {<<0, 1>>, <<0, -1>>, <<1, 0>>, <<-1, 0>>,
               <<1, 1>>, <<-1, -1>>, <<1, -1>>, <<-1, 1>>}

find_unexplored_neighbors(ai, cell) ==
    {n \in {<<cell[1] + d[1], cell[2] + d[2]>> : d \in directions} :
        /\ 0 <= n[1] /\ n[1] < height /\ 0 <= n[2] /\ n[2] < width
        /\ n \notin (ai.moves_made \cup ai.safes \cup ai.mines)}

\* add_knowledge without line 194, "self.mark_safe(cell)"
observe_without_mark_safe(ai, cell, count) ==
    LET marked == [ai EXCEPT !.moves_made = @ \cup {cell}]
        unexplored_neighbors == find_unexplored_neighbors(marked, cell)
    IN  IF count = 0
        THEN mark_safe_each(marked, unexplored_neighbors)
        ELSE IF Cardinality(unexplored_neighbors) <= count
        THEN mark_mine_each(marked, unexplored_neighbors)
        ELSE [marked EXCEPT !.knowledge = Append(@, Sentence(unexplored_neighbors, count))]

\* add_knowledge, lines 192-205: record the move, mark it safe, and resolve
\* or record the observation.
observe(ai, cell, count) ==
    LET marked == mark_safe([ai EXCEPT !.moves_made = @ \cup {cell}], cell)
        unexplored_neighbors == find_unexplored_neighbors(marked, cell)
    IN  IF count = 0
        THEN mark_safe_each(marked, unexplored_neighbors)
        ELSE IF Cardinality(unexplored_neighbors) <= count
        THEN mark_mine_each(marked, unexplored_neighbors)
        ELSE [marked EXCEPT !.knowledge = Append(@, Sentence(unexplored_neighbors, count))]

\* add_knowledge, lines 213-218: the cells of every sentence whose count
\* equals its size, except those already in self.mines.
mines_to_be_marked(ai) ==
    UNION {ai.knowledge[i].cells :
              i \in {j \in DOMAIN ai.knowledge :
                        Cardinality(ai.knowledge[j].cells) = ai.knowledge[j].count}}
    \ ai.mines

\* add_knowledge, lines 226-232: the cells of every sentence whose count is
\* 0, except those already in self.safes.
safes_to_be_marked(ai) ==
    UNION {ai.knowledge[i].cells :
              i \in {j \in DOMAIN ai.knowledge : ai.knowledge[j].count = 0}}
    \ ai.safes

\* "sentence in list": membership by Sentence.__eq__
Contains(list, s) == \E i \in DOMAIN list : list[i] = s

\* add_knowledge, lines 227-233: for every sentence of the deep copy whose
\* count is 0, self.knowledge.remove(sentence) drops the first element equal
\* to it.  The copy holds as many elements equal to a given sentence as the
\* list, so every sentence with count 0 goes and the others keep their order.
IsUnresolved(s) == s.count # 0

\* The safe extraction without "self.knowledge.remove(sentence)"
remove_resolved_nothing(list) == list

remove_resolved(list) == SelectSeq(list, IsUnresolved)

\* add_knowledge, lines 241-247.  The nested loops visit the pairs
\* (sentence_a, sentence_b) in list order; p numbers them from 1.
sentence_a(list, p) == list[((p - 1) \div Len(list)) + 1]

sentence_b(list, p) == list[((p - 1) % Len(list)) + 1]

new_sentence(list, p) ==
    Sentence(sentence_b(list, p).cells \ sentence_a(list, p).cells,
             sentence_b(list, p).count - sentence_a(list, p).count)

\* Line 244: sentence_a.cells is a proper subset of sentence_b.cells
IsSubsetPair(list, p) ==
    /\ sentence_a(list, p).cells # sentence_b(list, p).cells
    /\ sentence_a(list, p).cells \subseteq sentence_b(list, p).cells

\* The subset inference finding nothing: new_knowledge stays empty
subset_inference_nothing(list) == <<>>

\* new_knowledge, lines 241-247: the new sentence of every subset pair, in
\* the order of the pairs, unless it is in self.knowledge or an earlier
\* pair has put an equal one in new_knowledge.
subset_inference(list) ==
    LET Appends(p) ==
            /\ IsSubsetPair(list, p)
            /\ ~Contains(list, new_sentence(list, p))
            /\ \A q \in 1 .. p - 1 :
                  IsSubsetPair(list, q) => new_sentence(list, q) # new_sentence(list, p)
        appended == SelectSeq([p \in 1 .. Len(list) * Len(list) |-> p], Appends)
    IN  [k \in DOMAIN appended |-> new_sentence(list, appended[k])]

\* Lines 213-222: collect the mines to be marked, then mark them
extract_mines(ai) == mark_mine_each(ai, mines_to_be_marked(ai))

\* Lines 226-237: collect the safes to be marked from a copy of the
\* knowledge, drop the sentences with count 0, then mark the safes
extract_safes(ai) ==
    mark_safe_each([ai EXCEPT !.knowledge = remove_resolved(@)], safes_to_be_marked(ai))

\* Lines 241-251: append the new knowledge
infer_subsets(ai) == [ai EXCEPT !.knowledge = @ \o subset_inference(@)]

\* One iteration of add_knowledge's while loop, lines 209-251.  The result
\* is the solver after the pass and the value the pass leaves in loop_again.
propagate(ai) ==
    LET mined == extract_mines(ai)
        cleared == extract_safes(mined)
    IN  [ai |-> infer_subsets(cleared),
         loop_again |-> \/ mines_to_be_marked(ai) # {}
                        \/ safes_to_be_marked(mined) # {}
                        \/ subset_inference(cleared.knowledge) # <<>>]

\* add_knowledge's while loop as a whole, lines 207-251: passes repeat while
\* a pass leaves loop_again TRUE (at most `passes` of them are followed).
RECURSIVE fixpoint(_, _)
fixpoint(ai, passes) ==
    LET r == propagate(ai)
    IN  IF r.loop_again /\ passes > 1 THEN fixpoint(r.ai, passes - 1) ELSE r

\* ---------------------------------------------------------------------------
\* State machine
\* ---------------------------------------------------------------------------

Shapes == {s \in (1 .. MaxHeight) \X (1 .. MaxWidth) : s[1] * s[2] <= MaxCells}

Returned(op, value) == [op |-> op, value |-> value]

\* MinesweeperAI.__init__: a solver that knows nothing
NewSolver ==
    /\ moves_made = {}
    /\ mines = {}
    /\ safes = {}
    /\ knowledge = <<>>
    /\ pc = "idle"
    /\ loop_again = FALSE
    /\ calls = 0
    /\ last_call = Returned("__init__", None)

\* Minesweeper.__init__ and MinesweeperAI.__init__: a board of some shape
\* with some mines on it, and a solver for a grid of that shape.
Init ==
    /\ \E s \in Shapes :
          /\ height = s[1]
          /\ width = s[2]
          /\ board \in {b \in SUBSET Grid(s[1], s[2]) : Cardinality(b) <= MaxMines}
    /\ NewSolver

Install(ai) ==
    /\ moves_made' = ai.moves_made
    /\ mines' = ai.mines
    /\ safes' = ai.safes
    /\ knowledge' = ai.knowledge

\* Every sentence count is within the range the model explores
CountsBounded ==
    \A i \in DOMAIN knowledge :
        -MaxCount <= knowledge[i].count /\ knowledge[i].count <= MaxCount

\* add_knowledge(cell, count) up to the head of its while loop
\* (lines 192-207).
add_knowledge(cell, count) ==
    /\ pc = "idle"
    /\ Install(observe(Self, cell, count))
    /\ loop_again' = TRUE
    /\ pc' = "mines"
    /\ calls' = calls + 1
    /\ last_call' = Returned("add_knowledge", None)
    /\ UNCHANGED <<height, width, board>>

\* The head of the while loop and the mine extraction (lines 208-222):
\* loop_again is reset, and set again if a mine is marked.
mine_extraction ==
    /\ pc = "mines"
    /\ CountsBounded
    /\ Install(extract_mines(Self))
    /\ loop_again' = (mines_to_be_marked(Self) # {})
    /\ pc' = "safes"
    /\ UNCHANGED <<height, width, board, calls, last_call>>

\* The safe extraction (lines 224-237)
safe_extraction ==
    /\ pc = "safes"
    /\ Install(extract_safes(Self))
    /\ loop_again' = (loop_again \/ safes_to_be_marked(Self) # {})
    /\ pc' = "subsets"
    /\ UNCHANGED <<height, width, board, calls, last_call>>

\* The subset inference (lines 239-251) and the loop test that follows: the
\* call goes round again if loop_again is set, and returns (None) if not.
subset_inference_step ==
    /\ pc = "subsets"
    /\ Install(infer_subsets(Self))
    /\ loop_again' = (loop_again \/ subset_inference(knowledge) # <<>>)
    /\ pc' = IF loop_again \/ subset_inference(knowledge) # <<>> THEN "mines" ELSE "idle"
    /\ UNCHANGED <<height, width, board, calls, last_call>>

\* make_safe_move popping from self.safes itself instead of a fresh set
make_safe_move_pops_safes ==
    /\ pc = "idle"
    /\ IF safes \ moves_made = {}
       THEN last_call' = Returned("make_safe_move", None) /\ safes' = safes
       ELSE \E safe_cell \in safes \ moves_made :
               /\ last_call' = Returned("make_safe_move", safe_cell)
               /\ safes' = safes \ {safe_cell}
    /\ UNCHANGED <<height, width, board, moves_made, mines, knowledge, pc, loop_again, calls>>

\* make_safe_move, lines 262-269: set.pop() takes an arbitrary element of
\* the fresh set safes - moves_made.
make_safe_move ==
    /\ pc = "idle"
    /\ LET unmade_safes == safes \ moves_made
       IN  IF unmade_safes = {}
           THEN last_call' = Returned("make_safe_move", None)
           ELSE \E safe_cell \in unmade_safes :
                   last_call' = Returned("make_safe_move", safe_cell)
    /\ UNCHANGED <<height, width, board, moves_made, mines, safes, knowledge,
                   pc, loop_again, calls>>

\* make_random_move testing the drawn cell against moves_made only
make_random_move_ignores_mines ==
    /\ pc = "idle"
    /\ \E random_cell \in Grid(height, width) :
          /\ random_cell \notin moves_made
          /\ last_call' = Returned("make_random_move", random_cell)
    /\ UNCHANGED <<height, width, board, moves_made, mines, safes, knowledge,
                   pc, loop_again, calls>>

\* make_random_move, lines 278-283: draws cells of the grid until one is
\* neither in moves_made nor in mines; it returns only if there is one.
make_random_move ==
    /\ pc = "idle"
    /\ \E random_cell \in Grid(height, width) :
          /\ random_cell \notin (moves_made \cup mines)
          /\ last_call' = Returned("make_random_move", random_cell)
    /\ UNCHANGED <<height, width, board, moves_made, mines, safes, knowledge,
                   pc, loop_again, calls>>

\* A direct call of MinesweeperAI.mark_mine(cell), lines 163-165
call_mark_mine(cell) ==
    /\ pc = "idle"
    /\ Install(mark_mine(Self, cell))
    /\ calls' = calls + 1
    /\ last_call' = Returned("mark_mine", None)
    /\ UNCHANGED <<height, width, board, pc, loop_again>>

\* A direct call of MinesweeperAI.mark_safe(cell), lines 172-174
call_mark_safe(cell) ==
    /\ pc = "idle"
    /\ Install(mark_safe(Self, cell))
    /\ calls' = calls + 1
    /\ last_call' = Returned("mark_safe", None)
    /\ UNCHANGED <<height, width, board, pc, loop_again>>

\* The game: every observation comes from the board.  The cell is a cell
\* of the grid that is no mine and was not revealed before, and count is
\* Minesweeper.nearby_mines(cell).
Reveal ==
    /\ calls < MaxMoves
    /\ \E cell \in Grid(height, width) \ (board \cup moves_made) :
          add_knowledge(cell, nearby_mines(cell))

Next ==
    \/ Reveal
    \/ mine_extraction
    \/ safe_extraction
    \/ subset_inference_step
    \/ make_safe_move
    \/ make_random_move

Spec == Init /\ [][Next]_vars

\* ---------------------------------------------------------------------------
\* The solver driven by any caller: any cell of the grid or next to it, any
\* count, and direct calls of mark_mine and mark_safe.
\* ---------------------------------------------------------------------------

AnyCell == (-1 .. height) \X (-1 .. width)

InitAny ==
    /\ \E s \in (1 .. MaxSide) \X (1 .. MaxSide) :
          /\ height = s[1]
          /\ width = s[2]
    /\ board = {}
    /\ NewSolver

Observe ==
    /\ calls < MaxCalls
    /\ \E cell \in AnyCell, count \in 0 .. MaxArg : add_knowledge(cell, count)

MarkMine ==
    /\ calls < MaxCalls
    /\ \E cell \in AnyCell : call_mark_mine(cell)

MarkSafe ==
    /\ calls < MaxCalls
    /\ \E cell \in AnyCell : call_mark_safe(cell)

NextAny ==
    \/ Observe
    \/ MarkMine
    \/ MarkSafe
    \/ mine_extraction
    \/ safe_extraction
    \/ subset_inference_step
    \/ make_safe_move
    \/ make_random_move

SpecAny == InitAny /\ [][NextAny]_vars

\* ---------------------------------------------------------------------------
\* The game on the 2 x 5 boards with three mines, two of them at (0,2) and
\* (1,2), with the scheduling the code has: a running add_knowledge call
\* takes its next step.
\* ---------------------------------------------------------------------------

InitLoop ==
    /\ height = 2
    /\ width = 5
    /\ board \in {b \in SUBSET Grid(2, 5) :
                    Cardinality(b) = 3 /\ {<<0, 2>>, <<1, 2>>} \subseteq b}
    /\ NewSolver

Running == mine_extraction \/ safe_extraction \/ subset_inference_step

FairLoopSpec == InitLoop /\ [][Next]_vars /\ WF_vars(Running)

\* ---------------------------------------------------------------------------
\* One Sentence on its own: knowledge holds a single sentence, any set of
\* cells of the MaxSide x MaxSide grid with any count from -1 to MaxArg + 2,
\* and its four methods are called on it with any cell of the grid or next
\* to it.  last_call.value is, for the two marking methods, the cell they
\* were given, and for the two queries, what they returned.
\* ---------------------------------------------------------------------------

InitSentence ==
    /\ height = MaxSide
    /\ width = MaxSide
    /\ board = {}
    /\ moves_made = {}
    /\ mines = {}
    /\ safes = {}
    /\ \E cells \in SUBSET Grid(MaxSide, MaxSide), count \in -1 .. MaxArg + 2 :
          knowledge = <<Sentence(cells, count)>>
    /\ pc = "idle"
    /\ loop_again = FALSE
    /\ calls = 0
    /\ last_call = Returned("__init__", None)

SentenceFrame ==
    UNCHANGED <<height, width, board, moves_made, mines, safes, pc, loop_again, calls>>

call_Sentence_mark_mine(cell) ==
    /\ knowledge' = <<Sentence_mark_mine(knowledge[1], cell)>>
    /\ last_call' = Returned("Sentence.mark_mine", cell)
    /\ SentenceFrame

call_Sentence_mark_safe(cell) ==
    /\ knowledge' = <<Sentence_mark_safe(knowledge[1], cell)>>
    /\ last_call' = Returned("Sentence.mark_safe", cell)
    /\ SentenceFrame

call_known_mines ==
    /\ last_call' = Returned("known_mines", known_mines(knowledge[1]))
    /\ UNCHANGED knowledge
    /\ SentenceFrame

call_known_safes ==
    /\ last_call' = Returned("known_safes", known_safes(knowledge[1]))
    /\ UNCHANGED knowledge
    /\ SentenceFrame

SentenceMarkMine == \E cell \in AnyCell : call_Sentence_mark_mine(cell)

SentenceMarkSafe == \E cell \in AnyCell : call_Sentence_mark_safe(cell)

NextSentence ==
    \/ SentenceMarkMine
    \/ SentenceMarkSafe
    \/ call_known_mines
    \/ call_known_safes

SpecSentence == InitSentence /\ [][NextSentence]_vars

\* ---------------------------------------------------------------------------
\* Properties
\* ---------------------------------------------------------------------------

\* C1: safe-side soundness.  With a truthful oracle, once add_knowledge has
\* returned no cell of safes is a mine of the board, and make_safe_move
\* never returns a mine.
SafeSideSound ==
    pc = "idle" =>
        /\ \A cell \in safes : ~is_mine(cell)
        /\ (last_call.op = "make_safe_move" /\ last_call.value # None)
              => ~is_mine(last_call.value)

\* C2: mine-side soundness.  With a truthful oracle, once add_knowledge has
\* returned every cell of the solver's mines is a mine of the board.
MineSideSound == pc = "idle" => \A cell \in mines : is_mine(cell)

\* C3: with a truthful oracle no cell is ever in both safes and mines.
SafesMinesDisjoint == safes \cap mines = {}

\* C4: fixpoint termination.  Every add_knowledge call that is running
\* reaches a pass that leaves loop_again FALSE, and the call returns.
FixpointTerminates == (pc # "idle") ~> (pc = "idle")

\* C5: with a truthful oracle, once add_knowledge has returned every
\* sentence of knowledge has 0 <= count <= |cells|.
CountWithinCells ==
    pc = "idle" =>
        \A i \in DOMAIN knowledge :
            /\ 0 <= knowledge[i].count
            /\ knowledge[i].count <= Cardinality(knowledge[i].cells)

\* C6: monotonicity.  Whatever is called, with whatever arguments, every
\* step keeps all the members of moves_made, of safes and of mines.
Monotone ==
    [][/\ moves_made \subseteq moves_made'
       /\ safes \subseteq safes'
       /\ mines \subseteq mines']_vars

WitnessMonotone ==
    /\ pc = "idle"
    /\ calls = MaxCalls
    /\ moves_made # {}
    /\ mines # {}
    /\ safes \ moves_made # {}

\* C7: after any sequence of completed add_knowledge calls (and of any
\* other calls) moves_made is a subset of safes.
MovesMadeAreSafes == pc = "idle" => moves_made \subseteq safes

WitnessMovesMadeAreSafes ==
    /\ pc = "idle"
    /\ Cardinality(moves_made) >= 2
    /\ last_call.op = "add_knowledge"

\* C8: end-to-end scenario.  On the 3 x 3 board whose only mine is (2,2),
\* once add_knowledge has been called for (0,0), (1,1), (1,2) and (2,1),
\* each with its true count (0, 1, 1, 1), and has returned, mines is
\* {(2,2)} and safes holds the eight other cells.  In the game the calls
\* made are the cells of moves_made, so the statement covers the four calls
\* in every order, the order (0,0), (1,1), (1,2), (2,1) among them.
ScenarioBoard == height = 3 /\ width = 3 /\ board = {<<2, 2>>}

ScenarioCells == {<<0, 0>>, <<1, 1>>, <<1, 2>>, <<2, 1>>}

ScenarioCounts ==
    /\ nearby_mines(<<0, 0>>) = 0
    /\ nearby_mines(<<1, 1>>) = 1
    /\ nearby_mines(<<1, 2>>) = 1
    /\ nearby_mines(<<2, 1>>) = 1

EndToEndScenario ==
    (ScenarioBoard /\ pc = "idle" /\ moves_made = ScenarioCells) =>
        /\ ScenarioCounts
        /\ mines = {<<2, 2>>}
        /\ Grid(3, 3) \ {<<2, 2>>} \subseteq safes

WitnessEndToEndScenario ==
    /\ ScenarioBoard
    /\ pc = "idle"
    /\ moves_made = ScenarioCells
    /\ last_call.op = "add_knowledge"

\* C9: subset inference correctness.  Whenever a pass of the propagation
\* loop starts with sentences A and B in knowledge, A.cells a proper subset
\* of B.cells, the loop ends with every cell of B.cells - A.cells in mines
\* if B.count - A.count = |B.cells - A.cells|, and in safes if
\* B.count = A.count.
SubsetInferenceCorrect ==
    pc = "mines" =>
        LET end == fixpoint(Self, MaxPasses)
        IN  ~end.loop_again =>
                \A i, j \in DOMAIN knowledge :
                    LET A == knowledge[i]
                        B == knowledge[j]
                    IN  (A.cells # B.cells /\ A.cells \subseteq B.cells) =>
                            /\ (B.count - A.count = Cardinality(B.cells \ A.cells))
                                  => (B.cells \ A.cells) \subseteq end.ai.mines
                            /\ (B.count = A.count)
                                  => (B.cells \ A.cells) \subseteq end.ai.safes

\* C10: make_safe_move returns a cell of safes \ moves_made when there is
\* one, returns None exactly when there is none, and leaves moves_made,
\* safes, mines and knowledge as they are.
SafeMoveContract ==
    [][make_safe_move =>
          /\ (safes \ moves_made # {}) => last_call'.value \in safes \ moves_made
          /\ (last_call'.value = None) <=> (safes \ moves_made = {})
          /\ UNCHANGED <<moves_made, safes, mines, knowledge>>]_vars

WitnessSafeMoveContract ==
    /\ last_call.op = "make_safe_move"
    /\ last_call.value # None
    /\ last_call.value \in safes \ moves_made
    /\ Cardinality(safes \ moves_made) >= 2

\* C11: whenever make_random_move returns, the cell it returns is a cell of
\* the grid that is neither in moves_made nor in mines, and moves_made,
\* safes, mines and knowledge are as they were; so a cell that
\* make_safe_move or make_random_move has just returned is never already in
\* moves_made when the game hands it to add_knowledge.
RandomMoveContract ==
    [][/\ make_random_move =>
             /\ last_call'.value \in Grid(height, width)
             /\ last_call'.value \notin (moves_made \cup mines)
             /\ UNCHANGED <<moves_made, safes, mines, knowledge>>
       /\ (/\ last_call'.op \in {"make_safe_move", "make_random_move"}
           /\ last_call'.value # None)
             => last_call'.value \notin moves_made']_vars

WitnessRandomMoveContract ==
    /\ last_call.op = "make_random_move"
    /\ last_call.value \notin (moves_made \cup mines \cup safes)
    /\ moves_made # {}
    /\ mines # {}

\* C12: add_knowledge called with a cell outside the grid is rejected: the
\* call signals invalid input instead of returning None as an accepted call
\* does, and moves_made, safes, mines and knowledge are as they were.
OutOfGridRejected ==
    [][\A cell \in AnyCell \ Grid(height, width), count \in 0 .. MaxArg :
          add_knowledge(cell, count) =>
              /\ UNCHANGED <<moves_made, safes, mines, knowledge>>
              /\ last_call'.value # None]_vars

\* C13: Sentence marking.  For every sentence and every cell c, mark_mine(c)
\* and mark_safe(c) leave cells and count as they are when c is not in
\* cells; when c is in cells both remove exactly c from cells, mark_mine
\* lowers count by exactly 1 and mark_safe leaves count as it is.
SentenceMarking ==
    [][/\ last_call'.op = "Sentence.mark_mine" =>
             LET c == last_call'.value
             IN  /\ c \notin knowledge[1].cells => knowledge'[1] = knowledge[1]
                 /\ c \in knowledge[1].cells =>
                       /\ knowledge'[1].cells = knowledge[1].cells \ {c}
                       /\ knowledge'[1].count = knowledge[1].count - 1
       /\ last_call'.op = "Sentence.mark_safe" =>
             LET c == last_call'.value
             IN  /\ c \notin knowledge[1].cells => knowledge'[1] = knowledge[1]
                 /\ c \in knowledge[1].cells =>
                       /\ knowledge'[1].cells = knowledge[1].cells \ {c}
                       /\ knowledge'[1].count = knowledge[1].count]_vars

WitnessSentenceMarking ==
    /\ last_call.op = "Sentence.mark_mine"
    /\ last_call.value \notin knowledge[1].cells
    /\ knowledge[1].cells # {}
    /\ knowledge[1].count = -2

\* C14: Sentence queries.  For every sentence, known_mines() returns cells
\* if and only if count = |cells| and returns None otherwise; known_safes()
\* returns cells if and only if count = 0 and returns None otherwise; and
\* neither call changes the sentence.
SentenceQueries ==
    [][/\ last_call'.op = "known_mines" =>
             /\ (last_call'.value = SomeCells(knowledge[1].cells))
                   <=> (knowledge[1].count = Cardinality(knowledge[1].cells))
             /\ (last_call'.value = NoCells)
                   <=> (knowledge[1].count # Cardinality(knowledge[1].cells))
             /\ knowledge' = knowledge
       /\ last_call'.op = "known_safes" =>
             /\ (last_call'.value = SomeCells(knowledge[1].cells))
                   <=> (knowledge[1].count = 0)
             /\ (last_call'.value = NoCells) <=> (knowledge[1].count # 0)
             /\ knowledge' = knowledge]_vars

WitnessSentenceQueries ==
    /\ last_call.op = "known_mines"
    /\ last_call.value = SomeCells(knowledge[1].cells)
    /\ Cardinality(knowledge[1].cells) = 2

\* C15: with a truthful oracle every sentence held in knowledge is true of
\* the grid, the sentence appended for a new observation included: the
\* number of mines of the board among its cells equals its count.
SentencesTrueOfGrid ==
    \A i \in DOMAIN knowledge :
        Cardinality(knowledge[i].cells \cap board) = knowledge[i].count

\* C16: all trivial conclusions are extracted at the fixpoint.  Whenever
\* add_knowledge has returned, knowledge holds no sentence with count 0 and
\* no sentence with a non-empty cell set whose count equals |cells|.
TrivialConclusionsExtracted ==
    pc = "idle" =>
        \A i \in DOMAIN knowledge :
            /\ knowledge[i].count # 0
            /\ knowledge[i].cells # {} =>
                  knowledge[i].count # Cardinality(knowledge[i].cells)

WitnessTrivialConclusionsExtracted ==
    /\ pc = "idle"
    /\ last_call.op = "add_knowledge"
    /\ Len(knowledge) >= 2
    /\ mines # {}
    /\ safes \ moves_made # {}

\* C17: subset-difference closure at the fixpoint.  Whenever add_knowledge
\* has returned, for every two sentences A and B of knowledge with A.cells a
\* proper subset of B.cells, knowledge holds a sentence equal by value to
\* (B.cells - A.cells, B.count - A.count).
SubsetDifferenceClosed ==
    pc = "idle" =>
        \A i, j \in DOMAIN knowledge :
            (/\ knowledge[i].cells # knowledge[j].cells
             /\ knowledge[i].cells \subseteq knowledge[j].cells)
                => Contains(knowledge,
                            Sentence(knowledge[j].cells \ knowledge[i].cells,
                                     knowledge[j].count - knowledge[i].count))

WitnessSubsetDifferenceClosed ==
    /\ pc = "idle"
    /\ last_call.op = "add_knowledge"
    /\ \E i, j \in DOMAIN knowledge :
          /\ knowledge[i].cells # knowledge[j].cells
          /\ knowledge[i].cells \subseteq knowledge[j].cells

\* C18: sentences are destroyed once they become empty.  With a truthful
\* oracle, whenever add_knowledge has returned no sentence of knowledge has
\* an empty cell set.
NoEmptySentences ==
    pc = "idle" => \A i \in DOMAIN knowledge : knowledge[i].cells # {}

\* C19: in the 3 x 3 scenario with the only mine at (2,2), after
\* add_knowledge((0,0),0) has returned, the call add_knowledge((1,1),1)
\* computes the unexplored neighbours of (1,1) as exactly
\* {(0,2),(1,2),(2,0),(2,1),(2,2)}, every neighbour but the three cells the
\* first call made safe, and appends the sentence
\* {(0,2),(1,2),(2,0),(2,1),(2,2)} = 1 to knowledge.
AfterFirstScenarioCall == ScenarioBoard /\ pc = "idle" /\ moves_made = {<<0, 0>>}

ScenarioUnexplored == {<<0, 2>>, <<1, 2>>, <<2, 0>>, <<2, 1>>, <<2, 2>>}

ScenarioSecondCall ==
    [][(AfterFirstScenarioCall /\ add_knowledge(<<1, 1>>, 1)) =>
          /\ find_unexplored_neighbors(Self, <<1, 1>>)' = ScenarioUnexplored
          /\ knowledge' = Append(knowledge, Sentence(ScenarioUnexplored, 1))]_vars

WitnessScenarioSecondCall ==
    /\ ScenarioBoard
    /\ pc = "mines"
    /\ moves_made = {<<0, 0>>, <<1, 1>>}
    /\ safes = {<<0, 0>>, <<0, 1>>, <<1, 0>>, <<1, 1>>}
    /\ Len(knowledge) = 1

\* C19 as the specification states it: the unexplored neighbours of (1,1)
\* are exactly {(1,2),(2,1),(2,2)} and the sentence {(1,2),(2,1),(2,2)} = 1
\* is added.
ScenarioUnexploredAsStated == {<<1, 2>>, <<2, 1>>, <<2, 2>>}

ScenarioSecondCallAsStated ==
    [][(AfterFirstScenarioCall /\ add_knowledge(<<1, 1>>, 1)) =>
          /\ find_unexplored_neighbors(Self, <<1, 1>>)' = ScenarioUnexploredAsStated
          /\ knowledge' = Append(knowledge, Sentence(ScenarioUnexploredAsStated, 1))]_vars

\* C20: classified cells never remain in sentences.  Whenever
\* add_knowledge, mark_safe or mark_mine has returned, whatever the calls
\* made and their arguments, the cell set of every sentence of knowledge is
\* disjoint from safes, from mines and from moves_made.
ClassifiedCellsLeaveSentences ==
    pc = "idle" =>
        \A i \in DOMAIN knowledge :
            knowledge[i].cells \cap (safes \cup mines \cup moves_made) = {}

WitnessClassifiedCellsLeaveSentences ==
    /\ pc = "idle"
    /\ last_call.op = "mark_mine"
    /\ mines # {}
    /\ \E i \in DOMAIN knowledge : Cardinality(knowledge[i].cells) = 1

====
